---- MODULE Spec2Model ----
(***************************************************************************)
(* A model of lib/event.go of runreveal/cwlogs: the construction of an     *)
(* Event from a CloudWatch FilteredLogEvent (NewEvent and                  *)
(* SlogEvent.UnmarshalJSON), the epoch-millisecond conversion              *)
(* (ParseAWSTimestamp), the stream shortening view (TaskShort) and the     *)
(* sort.Interface adapter ByCreationTime.                                  *)
(*                                                                         *)
(* JSON texts are modelled as decoded tokens that keep their raw text:     *)
(* a value is [k, raw, s] with k the JSON kind, raw the undecoded text and *)
(* s the decoded content (string content for a string, the literal for a   *)
(* number).  A time.Time is [isZero, sec, nsec]: isZero marks the zero     *)
(* Time (January 1, year 1 UTC), otherwise sec/nsec count from the Unix    *)
(* epoch with 0 <= nsec < 10^9, as time.Unix normalises them.              *)
(***************************************************************************)
EXTENDS Integers, Sequences, FiniteSets, TLC

VARIABLES cwEvent, group, event, pc, levelNullFails,
          b, b0, si, sj, spc,
          stream, edits, short, tpc

vars == <<cwEvent, group, event, pc, levelNullFails,
          b, b0, si, sj, spc, stream, edits, short, tpc>>

eventVars == <<cwEvent, group, event, pc, levelNullFails>>
sortVars == <<b, b0, si, sj, spc>>
taskVars == <<stream, edits, short, tpc>>

\* The fields of the AWS SDK's FilteredLogEvent are pointers: [nil, v] is nil
\* or points to v.
NilInt == [nil |-> TRUE, v |-> 0]
NilString == [nil |-> TRUE, v |-> ""]
Ref(x) == [nil |-> FALSE, v |-> x]

-----------------------------------------------------------------------------
(* time.Time and ParseAWSTimestamp *)

Million == 1000000
Billion == 1000000000

\* The zero time.Time, the value of an unset SlogEvent.Time.
ZeroTime == [isZero |-> TRUE, sec |-> 0, nsec |-> 0]

\* Go's integer division truncates toward zero ...
TruncDiv(a, n) == IF a >= 0 THEN a \div n ELSE -((-a) \div n)

\* ... and the remainder takes the sign of the dividend.
TruncRem(a, n) == a - n * TruncDiv(a, n)

\* time.Unix(sec, nsec): nsec outside [0, 1e9) is carried into sec.
Unix(sec, nsec) ==
    IF nsec < 0 \/ nsec >= Billion
    THEN LET n  == TruncDiv(nsec, Billion)
             s1 == sec + n
             n1 == nsec - n * Billion
         IN IF n1 < 0
            THEN [isZero |-> FALSE, sec |-> s1 - 1, nsec |-> n1 + Billion]
            ELSE [isZero |-> FALSE, sec |-> s1, nsec |-> n1]
    ELSE [isZero |-> FALSE, sec |-> sec, nsec |-> nsec]

IsUnixEpoch(t) == ~t.isZero /\ t.sec = 0 /\ t.nsec = 0

\* Time.IsZero
IsZero(t) == t.isZero

\* Time.Before: the zero Time precedes every instant near the epoch.
Before(t, u) ==
    IF t.isZero \/ u.isZero
    THEN t.isZero /\ ~u.isZero
    ELSE t.sec < u.sec \/ (t.sec = u.sec /\ t.nsec < u.nsec)

ParseAWSTimestampFloorDiv(i) ==
    IF i.nil THEN Unix(0, 0)
    ELSE Unix(i.v \div 1000, TruncRem(i.v, 1000) * Million)

\* ParseAWSTimestamp(i *int64): time.Unix(*i/1e3, (*i%1e3)*1e6), epoch for nil.
ParseAWSTimestamp(i) ==
    IF i.nil THEN Unix(0, 0)
    ELSE Unix(TruncDiv(i.v, 1000), TruncRem(i.v, 1000) * Million)

-----------------------------------------------------------------------------
(* JSON values *)

JNull == [k |-> "null", raw |-> "null", s |-> ""]
JTrue == [k |-> "bool", raw |-> "true", s |-> ""]
JNum(lit) == [k |-> "num", raw |-> lit, s |-> lit]
JStr(raw, content) == [k |-> "str", raw |-> raw, s |-> content]
JObj(raw) == [k |-> "obj", raw |-> raw, s |-> ""]
JArr(raw) == [k |-> "arr", raw |-> raw, s |-> ""]

\* The four keys SlogEvent.UnmarshalJSON extracts into typed fields.
staticFields == {"level", "time", "source", "msg"}

\* The keys of the modelled objects, in the order they are written.
KeyOrder == <<"level", "time", "source", "msg", "count", "Level">>
Keys == {KeyOrder[i] : i \in 1..Len(KeyOrder)}

EmptyMap == [x \in {} |-> JNull]


-----------------------------------------------------------------------------
(* The decoders json.Unmarshal runs for the typed fields.  Each returns    *)
(* [err, v]: v is the field after the call (written even when err).        *)

\* ecslogs.Level: NONE is the zero value of the type.
NONE == "NONE"
INFO == "INFO"
LevelNames == {"EMERGENCY", "ALERT", "CRIT", "ERROR", "WARN", "NOTICE",
               "INFO", "DEBUG", "TRACE"}

\* strings.ToUpper on the level names the model feeds in.
ToUpper(s) ==
    CASE s = "debug" -> "DEBUG"
      [] s = "loud"  -> "LOUD"
      [] OTHER       -> s

\* json.Unmarshal(levelData, &s.Level): a level name in any case decodes, any
\* other string or JSON kind is an error.  Whether null is an error depends on
\* which unmarshaler the library's Level carries; nullFails picks the outcome.
DecodeLevel(cur, v, nullFails) ==
    CASE v.k = "str"  -> IF ToUpper(v.s) \in LevelNames
                         THEN [err |-> FALSE, v |-> ToUpper(v.s)]
                         ELSE [err |-> TRUE, v |-> cur]
      [] v.k = "null" -> [err |-> nullFails, v |-> cur]
      [] OTHER        -> [err |-> TRUE, v |-> cur]

\* The RFC 3339 texts the model feeds in, and the instants they denote.
TimeTextOne  == "1970-01-01T00:00:01Z"
TimeTextFrac == "1970-01-01T00:00:02.5Z"
TimeTextZero == "0001-01-01T00:00:00Z"

ParseRFC3339(s) ==
    CASE s = TimeTextOne  -> [err |-> FALSE, v |-> Unix(1, 0)]
      [] s = TimeTextFrac -> [err |-> FALSE, v |-> Unix(2, 500 * Million)]
      [] s = TimeTextZero -> [err |-> FALSE, v |-> ZeroTime]
      [] OTHER            -> [err |-> TRUE, v |-> ZeroTime]

\* json.Unmarshal(timeData, &s.Time), i.e. Time.UnmarshalJSON: null is a no-op,
\* a string must parse as RFC 3339, anything else is an error.
DecodeTime(cur, v) ==
    CASE v.k = "null" -> [err |-> FALSE, v |-> cur]
      [] v.k = "str"  -> LET p == ParseRFC3339(v.s)
                         IN IF p.err THEN [err |-> TRUE, v |-> cur] ELSE p
      [] OTHER        -> [err |-> TRUE, v |-> cur]

ZeroSource == [Function |-> "", File |-> "", Line |-> 0]

SourceGoodRaw == "{\"function\":\"main.run\",\"file\":\"main.go\",\"line\":42}"
SourceBadLineRaw == "{\"function\":\"main.run\",\"line\":\"x\"}"

\* json.Unmarshal(sourceData, &s.Source) into the SourceInfo struct: null is a
\* no-op, an object fills the fields it names (a field of the wrong type is an
\* error reported after the others are stored), any other kind is an error.
DecodeSource(cur, v) ==
    CASE v.k = "null" -> [err |-> FALSE, v |-> cur]
      [] v.k = "obj"  ->
            CASE v.raw = SourceGoodRaw ->
                    [err |-> FALSE,
                     v |-> [Function |-> "main.run", File |-> "main.go", Line |-> 42]]
              [] v.raw = SourceBadLineRaw ->
                    [err |-> TRUE, v |-> [cur EXCEPT !.Function = "main.run"]]
              [] OTHER -> [err |-> FALSE, v |-> cur]
      [] OTHER        -> [err |-> TRUE, v |-> cur]

\* json.Unmarshal(value, &str) for a Go string: the decoded content of a JSON
\* string, a no-op for null, an error for every other kind.
DecodeString(cur, v) ==
    CASE v.k = "str"  -> [err |-> FALSE, v |-> v.s]
      [] v.k = "null" -> [err |-> FALSE, v |-> cur]
      [] OTHER        -> [err |-> TRUE, v |-> cur]

\* json.Unmarshal(value, &num) for a json.Number: the literal of a JSON number.
DecodeNumber(cur, v) ==
    CASE v.k = "num"  -> [err |-> FALSE, v |-> v.s]
      [] v.k = "null" -> [err |-> FALSE, v |-> cur]
      [] OTHER        -> [err |-> TRUE, v |-> cur]

\* json.Unmarshal(data, &raw) for map[string]json.RawMessage: an object gives
\* its members, null gives the nil map, every other text is an error.
DecodeRawMap(data) ==
    CASE data.k = "obj"  -> [err |-> FALSE, v |-> data.o]
      [] data.k = "null" -> [err |-> FALSE, v |-> EmptyMap]
      [] OTHER           -> [err |-> TRUE, v |-> EmptyMap]

-----------------------------------------------------------------------------
(* SlogEvent.UnmarshalJSON and NewEvent *)

NoData == [x \in {} |-> ""]

\* var ecsLogsEvent SlogEvent
ZeroSlogEvent ==
    [Level |-> NONE, Time |-> ZeroTime, Source |-> ZeroSource,
     Message |-> "", Data |-> NoData]

PayloadTextRawString(value) ==
    LET num == DecodeNumber("", value)
    IN IF value.k = "null" THEN ""
       ELSE IF ~num.err THEN num.v
       ELSE value.raw

\* The body of the loop over raw: string, else number, else the raw text.
PayloadText(value) ==
    LET str == DecodeString("", value)
        num == DecodeNumber("", value)
    IN IF ~str.err THEN str.v
       ELSE IF ~num.err THEN num.v
       ELSE value.raw

PayloadOfAllKeys(raw) ==
    [key \in DOMAIN raw |-> PayloadText(raw[key])]

\* s.Data after the loop: every key of raw that is not a static field.
PayloadOf(raw) ==
    [key \in (DOMAIN raw) \ staticFields |-> PayloadText(raw[key])]

\* (s *SlogEvent) UnmarshalJSON(data): [err, s] with s as the call leaves it.
UnmarshalJSON(s, data, nullFails) ==
    LET rm == DecodeRawMap(data) IN
    IF rm.err THEN [err |-> TRUE, s |-> s] ELSE
    LET raw == rm.v
        lv  == IF "level" \in DOMAIN raw
               THEN DecodeLevel(s.Level, raw["level"], nullFails)
               ELSE [err |-> FALSE, v |-> s.Level]
        s1  == [s EXCEPT !.Level = lv.v]
    IN IF lv.err THEN [err |-> TRUE, s |-> s1] ELSE
    LET tm == IF "time" \in DOMAIN raw
              THEN DecodeTime(s1.Time, raw["time"])
              ELSE [err |-> FALSE, v |-> s1.Time]
        s2 == [s1 EXCEPT !.Time = tm.v]
    IN IF tm.err THEN [err |-> TRUE, s |-> s2] ELSE
    LET src == IF "source" \in DOMAIN raw
               THEN DecodeSource(s2.Source, raw["source"])
               ELSE [err |-> FALSE, v |-> s2.Source]
        s3  == [s2 EXCEPT !.Source = src.v]
    IN IF src.err THEN [err |-> TRUE, s |-> s3] ELSE
    LET msg == IF "msg" \in DOMAIN raw
               THEN DecodeString(s3.Message, raw["msg"])
               ELSE [err |-> FALSE, v |-> s3.Message]
        s4  == [s3 EXCEPT !.Message = msg.v]
    IN IF msg.err THEN [err |-> TRUE, s |-> s4]
       ELSE [err |-> FALSE, s |-> [s4 EXCEPT !.Data = PayloadOf(raw)]]

\* json.Unmarshal([]byte(*cwEvent.Message), &ecsLogsEvent): a text that is not
\* valid JSON is rejected before UnmarshalJSON runs.
UnmarshalMessage(message, nullFails) ==
    IF message.k = "invalid"
    THEN [err |-> TRUE, s |-> ZeroSlogEvent]
    ELSE UnmarshalJSON(ZeroSlogEvent, message, nullFails)

\* The record NewEvent substitutes when decoding fails.
FallbackSlogEvent(cw) ==
    [ZeroSlogEvent EXCEPT !.Level = INFO, !.Message = cw.Message.v.raw]

\* The dereferences *cwEvent.Message, *cwEvent.LogStreamName, *cwEvent.EventId.
Panics(cw) ==
    cw.Message.nil \/ cw.LogStreamName.nil \/ cw.EventId.nil

NewEventPartialFallback(cw, grp, nullFails) ==
    LET parsed == UnmarshalMessage(cw.Message.v, nullFails)
        ecsLogsEvent == IF parsed.err
                        THEN [parsed.s EXCEPT !.Level = INFO,
                                              !.Message = cw.Message.v.raw]
                        ELSE parsed.s
        withTime == IF IsZero(ecsLogsEvent.Time)
                    THEN [ecsLogsEvent EXCEPT !.Time = ParseAWSTimestamp(cw.Timestamp)]
                    ELSE ecsLogsEvent
    IN [Level        |-> withTime.Level,
        Time         |-> withTime.Time,
        Source       |-> withTime.Source,
        Message      |-> withTime.Message,
        Data         |-> withTime.Data,
        Stream       |-> cw.LogStreamName.v,
        Group        |-> grp,
        ID           |-> cw.EventId.v,
        IngestTime   |-> ParseAWSTimestamp(cw.IngestionTime),
        CreationTime |-> ParseAWSTimestamp(cw.Timestamp)]

\* NewEvent(cwEvent, group), for a cwEvent that does not panic.
NewEvent(cw, grp, nullFails) ==
    LET parsed == UnmarshalMessage(cw.Message.v, nullFails)
        ecsLogsEvent == IF parsed.err THEN FallbackSlogEvent(cw) ELSE parsed.s
        withTime == IF IsZero(ecsLogsEvent.Time)
                    THEN [ecsLogsEvent EXCEPT !.Time = ParseAWSTimestamp(cw.Timestamp)]
                    ELSE ecsLogsEvent
    IN [Level        |-> withTime.Level,
        Time         |-> withTime.Time,
        Source       |-> withTime.Source,
        Message      |-> withTime.Message,
        Data         |-> withTime.Data,
        Stream       |-> cw.LogStreamName.v,
        Group        |-> grp,
        ID           |-> cw.EventId.v,
        IngestTime   |-> ParseAWSTimestamp(cw.IngestionTime),
        CreationTime |-> ParseAWSTimestamp(cw.Timestamp)]


-----------------------------------------------------------------------------
(* The retrieved records the model feeds to NewEvent *)

\* A top-level message is [k, raw, o]: its JSON kind ("invalid" for a text that
\* is not JSON), its text, and the members of an object.
Absent == [k |-> "absent", raw |-> "", s |-> ""]

LevelVals  == {JStr("\"ERROR\"", "ERROR"), JStr("\"debug\"", "debug"),
               JStr("\"loud\"", "loud"), JNum("3"), JNull}
TimeVals   == {JStr("\"1970-01-01T00:00:01Z\"", TimeTextOne),
               JStr("\"1970-01-01T00:00:02.5Z\"", TimeTextFrac),
               JStr("\"0001-01-01T00:00:00Z\"", TimeTextZero),
               JStr("\"yesterday\"", "yesterday"), JNum("1700000000"), JNull}
SourceVals == {JObj(SourceGoodRaw), JObj(SourceBadLineRaw),
               JStr("\"main.go:42\"", "main.go:42"), JNull}
MsgVals    == {JStr("\"m\"", "m"), JStr("\"a\\u0062\"", "ab"), JNum("7"), JNull}
CountVals  == {JStr("\"three\"", "three"), JStr("\"a\\u0062\"", "ab"),
               JNum("3"), JNum("1e3"), JTrue, JNull,
               JObj("{\"a\":1}"), JArr("[1,2]")}
UpperVals  == {JStr("\"x\"", "x")}

ValsOf(key) ==
    CASE key = "level"  -> LevelVals
      [] key = "time"   -> TimeVals
      [] key = "source" -> SourceVals
      [] key = "msg"    -> MsgVals
      [] key = "count"  -> CountVals
      [] key = "Level"  -> UpperVals

RECURSIVE RenderMembers(_, _, _)
RenderMembers(o, i, first) ==
    IF i > Len(KeyOrder) THEN ""
    ELSE IF KeyOrder[i] \in DOMAIN o
         THEN (IF first THEN "" ELSE ",") \o "\"" \o KeyOrder[i] \o "\":"
              \o o[KeyOrder[i]].raw \o RenderMembers(o, i + 1, FALSE)
         ELSE RenderMembers(o, i + 1, first)

\* The text of the object with members o.
Render(o) == "{" \o RenderMembers(o, 1, TRUE) \o "}"

ObjectMessage(f) ==
    LET o == [key \in {x \in Keys : f[x] # Absent} |-> f[key]]
    IN [k |-> "obj", raw |-> Render(o), o |-> o]

ObjectMessages ==
    {ObjectMessage([level |-> l, time |-> t, source |-> sr, msg |-> m,
                    count |-> c, Level |-> u]) :
        l \in LevelVals \cup {Absent}, t \in TimeVals \cup {Absent},
        sr \in SourceVals \cup {Absent}, m \in MsgVals \cup {Absent},
        c \in CountVals \cup {Absent}, u \in UpperVals \cup {Absent}}

TextMessage(kind, text) == [k |-> kind, raw |-> text, o |-> EmptyMap]

\* Texts that are not JSON, and JSON texts that are not objects.
InvalidMessages ==
    {TextMessage("invalid", "connection reset by peer"),
     TextMessage("invalid", "{\"level\":\"ERROR\""),
     TextMessage("invalid", "")}
NonObjectMessages ==
    {TextMessage("null", "null"), TextMessage("bool", "true"),
     TextMessage("num", "42"), TextMessage("str", "\"plain\""),
     TextMessage("arr", "[1,2]")}

Messages == InvalidMessages \cup NonObjectMessages \cup ObjectMessages

NilMessage == [nil |-> TRUE, v |-> TextMessage("invalid", "")]

\* A few messages for the runs that vary the retrieval metadata instead.
FewMessages ==
    InvalidMessages \cup NonObjectMessages \cup
    {ObjectMessage([level |-> JStr("\"ERROR\"", "ERROR"), time |-> t,
                    source |-> Absent, msg |-> JStr("\"m\"", "m"),
                    count |-> JNum("3"), Level |-> Absent]) :
        t \in {Absent, JStr("\"1970-01-01T00:00:01Z\"", TimeTextOne)}}

MsValues == {0, 1000, 1500}

\* Records with every pointer set, over all messages; and records in which
\* any of the five pointers may be nil, over the few messages.
CwEvents ==
    [Message       : {Ref(m) : m \in Messages},
     Timestamp     : {Ref(i) : i \in MsValues},
     IngestionTime : {Ref(2500)},
     LogStreamName : {Ref("worker-1")},
     EventId       : {Ref("36")}]
    \cup
    [Message       : {NilMessage} \cup {Ref(m) : m \in FewMessages},
     Timestamp     : {NilInt} \cup {Ref(i) : i \in MsValues},
     IngestionTime : {NilInt, Ref(2500)},
     LogStreamName : {NilString, Ref("worker-1")},
     EventId       : {NilString, Ref("36")}]

\* Records whose two timestamps range over every millisecond value in bounds.
MaxMs == 2500
MsPointers == {NilInt} \cup {Ref(i) : i \in (-MaxMs)..MaxMs}
FewMsPointers == {NilInt, Ref(-1), Ref(1001)}
TimeMessages ==
    {TextMessage("invalid", "connection reset by peer")} \cup
    {ObjectMessage([level |-> JStr("\"ERROR\"", "ERROR"), time |-> t,
                    source |-> Absent, msg |-> JStr("\"m\"", "m"),
                    count |-> JNum("3"), Level |-> Absent]) :
        t \in {Absent, JStr("\"1970-01-01T00:00:01Z\"", TimeTextOne)}}

CwEventsTime ==
    [Message       : {Ref(m) : m \in TimeMessages},
     Timestamp     : MsPointers,
     IngestionTime : FewMsPointers,
     LogStreamName : {Ref("worker-1")},
     EventId       : {Ref("36")}]
    \cup
    [Message       : {Ref(m) : m \in TimeMessages},
     Timestamp     : FewMsPointers,
     IngestionTime : MsPointers,
     LogStreamName : {Ref("worker-1")},
     EventId       : {Ref("36")}]

NoEvent ==
    [Level |-> NONE, Time |-> ZeroTime, Source |-> ZeroSource, Message |-> "",
     Data |-> NoData, Stream |-> "", Group |-> "", ID |-> "",
     IngestTime |-> ZeroTime, CreationTime |-> ZeroTime]

-----------------------------------------------------------------------------
(* Specification of NewEvent *)

SortIdle == b = <<>> /\ b0 = <<>> /\ si = 0 /\ sj = 0 /\ spc = "idle"
TaskIdle == stream = <<>> /\ edits = 0 /\ short = <<>> /\ tpc = "idle"
EventIdle ==
    /\ cwEvent = [Message |-> NilMessage, Timestamp |-> NilInt,
                  IngestionTime |-> NilInt, LogStreamName |-> NilString,
                  EventId |-> NilString]
    /\ group = "" /\ event = NoEvent /\ pc = "idle" /\ levelNullFails = FALSE

Init ==
    /\ cwEvent \in CwEvents
    /\ group = "prod"
    /\ event = NoEvent
    /\ pc = "start"
    /\ levelNullFails \in BOOLEAN
    /\ SortIdle /\ TaskIdle

\* One call of NewEvent(cwEvent, group): it returns the Event, or panics on a
\* nil Message, LogStreamName or EventId.
CallNewEvent ==
    /\ pc = "start"
    /\ IF Panics(cwEvent)
       THEN pc' = "panic" /\ event' = event
       ELSE pc' = "done" /\ event' = NewEvent(cwEvent, group, levelNullFails)
    /\ UNCHANGED <<cwEvent, group, levelNullFails>>
    /\ UNCHANGED <<sortVars, taskVars>>

Next == CallNewEvent

Spec == Init /\ [][Next]_vars

\* The same call, over the records that vary the two timestamps.
InitTime ==
    /\ cwEvent \in CwEventsTime
    /\ group = "prod"
    /\ event = NoEvent
    /\ pc = "start"
    /\ levelNullFails \in BOOLEAN
    /\ SortIdle /\ TaskIdle

SpecTime == InitTime /\ [][Next]_vars


-----------------------------------------------------------------------------
(* ByCreationTime: the sort.Interface adapter, driven by sort.Stable, which *)
(* for fewer than 20 elements is insertionSort(data, 0, n):                 *)
(*   for i := 1; i < n; i++ {                                               *)
(*     for j := i; j > 0 && data.Less(j, j-1); j-- { data.Swap(j, j-1) } }  *)
(* Indices are Go's (from 0); element i of the slice is bs[i + 1].          *)

MaxLen == 4
SortMs == {1000, 3000, 3001}

\* ByCreationTime.Len
ByCreationTimeLen(bs) == Len(bs)

\* ByCreationTime.Swap
ByCreationTimeSwap(bs, i, j) ==
    [bs EXCEPT ![i + 1] = bs[j + 1], ![j + 1] = bs[i + 1]]

ByCreationTimeLessOrEqual(bs, i, j) ==
    ~Before(bs[j + 1].CreationTime, bs[i + 1].CreationTime)

\* ByCreationTime.Less
ByCreationTimeLess(bs, i, j) ==
    Before(bs[i + 1].CreationTime, bs[j + 1].CreationTime)

\* The Event NewEvent builds for a plain-text record number n created at ms.
SortEvent(n, ms) ==
    NewEvent([Message       |-> Ref(TextMessage("invalid", "connection reset by peer")),
              Timestamp     |-> Ref(ms),
              IngestionTime |-> Ref(ms + 1),
              LogStreamName |-> Ref("worker-1"),
              EventId       |-> Ref(ToString(n))], "prod", FALSE)

InitSort ==
    /\ \E n \in 0..MaxLen : \E ms \in [1..n -> SortMs] :
          b = [i \in 1..n |-> SortEvent(i, ms[i])]
    /\ b0 = b
    /\ si = 0 /\ sj = 0 /\ spc = "start"
    /\ EventIdle /\ TaskIdle

\* i := a + 1
SortBegin ==
    /\ spc = "start"
    /\ si' = 1 /\ spc' = "outer"
    /\ UNCHANGED <<b, b0, sj>>
    /\ UNCHANGED <<eventVars, taskVars>>

\* i < b (the end of the range): enter the inner loop with j := i, or finish.
SortOuter ==
    /\ spc = "outer"
    /\ IF si < ByCreationTimeLen(b)
       THEN sj' = si /\ spc' = "inner"
       ELSE sj' = sj /\ spc' = "done"
    /\ UNCHANGED <<b, b0, si>>
    /\ UNCHANGED <<eventVars, taskVars>>

\* j > a && data.Less(j, j-1): swap and j--, or leave the inner loop with i++.
SortInner ==
    /\ spc = "inner"
    /\ IF sj > 0 /\ ByCreationTimeLess(b, sj, sj - 1)
       THEN /\ b' = ByCreationTimeSwap(b, sj, sj - 1)
            /\ sj' = sj - 1
            /\ UNCHANGED <<si, spc>>
       ELSE /\ si' = si + 1 /\ spc' = "outer"
            /\ UNCHANGED <<b, sj>>
    /\ UNCHANGED b0
    /\ UNCHANGED <<eventVars, taskVars>>

NextSort == SortBegin \/ SortOuter \/ SortInner

SpecSort == InitSort /\ [][NextSort]_vars

-----------------------------------------------------------------------------
(* Event.TaskShort.  A stream name is a sequence of one-character strings. *)

MaxEdits == 1

Digits == {"0", "1", "2", "3", "4", "5", "6", "7", "8", "9"}
Letters == {"a", "b", "c", "d", "e", "f", "x", "w", "o", "r", "k", "Z"}

\* [[:alnum:]]
IsAlnum(c) == c \in Digits \cup Letters

Rep(c, n) == [i \in 1..n |-> c]

\* TaskUUIDPattern between ^ and $: "A" stands for [[:alnum:]], "-" for itself.
TaskUUIDPattern ==
    Rep("A", 8) \o <<"-">> \o Rep("A", 4) \o <<"-">> \o Rep("A", 4) \o <<"-">>
    \o Rep("A", 4) \o <<"-">> \o Rep("A", 12)

\* Whether the pattern matches s from its first character on, up to the end of
\* the pattern.
MatchesPrefix(s) ==
    /\ Len(s) >= Len(TaskUUIDPattern)
    /\ \A i \in 1..Len(TaskUUIDPattern) :
          IF TaskUUIDPattern[i] = "A" THEN IsAlnum(s[i]) ELSE s[i] = "-"

MatchStringNoEndAnchor(s) == MatchesPrefix(s)

\* TaskUUIDPattern.MatchString(s): anchored at both ends.
MatchString(s) == MatchesPrefix(s) /\ Len(s) = Len(TaskUUIDPattern)

RECURSIVE SplitFrom(_, _, _, _)
SplitFrom(s, sep, i, cur) ==
    IF i > Len(s) THEN <<cur>>
    ELSE IF s[i] = sep THEN <<cur>> \o SplitFrom(s, sep, i + 1, <<>>)
    ELSE SplitFrom(s, sep, i + 1, Append(cur, s[i]))

\* strings.Split(s, sep) for a one-character separator.
Split(s, sep) == SplitFrom(s, sep, 1, <<>>)

\* (e Event) TaskShort(), for e.Stream = s.
TaskShort(s) ==
    IF MatchString(s) THEN Split(s, "-")[1] ELSE s

TaskUUID ==
    <<"1","2","3","4","5","6","7","8","-","a","a","a","a","-","b","b","b","b","-",
      "c","c","c","c","-","1","2","3","4","5","6","7","8","9","0","1","2">>

\* A UUID-shaped name, one with a hyphen moved, and names that are no UUIDs.
SeedStreams ==
    {TaskUUID,
     <<"1","2","3","4","5","6","7","-","8","a","a","a","a","-","b","b","b","b","-",
       "c","c","c","c","-","1","2","3","4","5","6","7","8","9","0","1","2">>,
     <<"w","o","r","k","e","r","-","1">>,
     <<"1","2","3","4","5","6","7","8">>,
     <<>>}

EditChars == {"Z", "-", "_"}

InitTask ==
    /\ stream \in SeedStreams
    /\ edits = 0 /\ short = <<>> /\ tpc = "edit"
    /\ EventIdle /\ SortIdle

\* The environment names the stream: one character replaced, inserted or
\* removed.
EditStream ==
    /\ tpc = "edit" /\ edits < MaxEdits
    /\ \/ \E p \in 1..Len(stream), c \in EditChars :
             stream' = [stream EXCEPT ![p] = c]
       \/ \E p \in 0..Len(stream), c \in EditChars :
             stream' = SubSeq(stream, 1, p) \o <<c>> \o SubSeq(stream, p + 1, Len(stream))
       \/ \E p \in 1..Len(stream) :
             stream' = SubSeq(stream, 1, p - 1) \o SubSeq(stream, p + 1, Len(stream))
    /\ edits' = edits + 1
    /\ UNCHANGED <<short, tpc>>
    /\ UNCHANGED <<eventVars, sortVars>>

\* One call of TaskShort on an Event of that stream.
CallTaskShort ==
    /\ tpc = "edit"
    /\ short' = TaskShort(stream)
    /\ tpc' = "done"
    /\ UNCHANGED <<stream, edits>>
    /\ UNCHANGED <<eventVars, sortVars>>

NextTask == EditStream \/ CallTaskShort

SpecTask == InitTask /\ [][NextTask]_vars

-----------------------------------------------------------------------------
(* Properties of NewEvent.  The expectations below are written from the    *)
(* JSON kinds of the input, not through the decoders above.                *)

Done == pc = "done"
message == cwEvent.Message.v
IsObject == message.k = "obj"

\* The instant i milliseconds after the epoch, for i >= 0.
InstantOfMs(i) ==
    [isZero |-> FALSE, sec |-> i \div 1000, nsec |-> (i % 1000) * Million]

\* The retrieval creation timestamp as an instant (the epoch when absent).
RetrievalCreation ==
    IF cwEvent.Timestamp.nil THEN InstantOfMs(0) ELSE InstantOfMs(cwEvent.Timestamp.v)

\* The non-JSON fallback Event for the raw text of the message.
FallbackEvent ==
    [Level |-> INFO, Time |-> RetrievalCreation, Source |-> ZeroSource,
     Message |-> message.raw, Data |-> NoData,
     Stream |-> cwEvent.LogStreamName.v, Group |-> group,
     ID |-> cwEvent.EventId.v,
     IngestTime |-> IF cwEvent.IngestionTime.nil THEN InstantOfMs(0)
                    ELSE InstantOfMs(cwEvent.IngestionTime.v),
     CreationTime |-> RetrievalCreation]

\* A present reserved key whose value does not decode into its typed field.
LevelUndecodable(o) ==
    /\ "level" \in DOMAIN o
    /\ \/ o["level"].k \in {"num", "bool", "obj", "arr"}
       \/ o["level"].k = "str" /\ o["level"].s \notin {"ERROR", "debug"}
       \/ o["level"].k = "null" /\ levelNullFails
TimeUndecodable(o) ==
    /\ "time" \in DOMAIN o
    /\ \/ o["time"].k \in {"num", "bool", "obj", "arr"}
       \/ o["time"].k = "str" /\ o["time"].s = "yesterday"
SourceUndecodable(o) ==
    /\ "source" \in DOMAIN o
    /\ \/ o["source"].k \in {"num", "bool", "str", "arr"}
       \/ o["source"].raw = SourceBadLineRaw
MsgUndecodable(o) ==
    /\ "msg" \in DOMAIN o
    /\ o["msg"].k \in {"num", "bool", "obj", "arr"}
SomeReservedUndecodable(o) ==
    LevelUndecodable(o) \/ TimeUndecodable(o) \/ SourceUndecodable(o) \/ MsgUndecodable(o)

\* The message is an object all of whose present reserved keys decode.
ParsedObject == IsObject /\ ~SomeReservedUndecodable(message.o)

\* C1: every message that is not valid JSON, or is valid JSON but not an
\* object (the literal null included), yields the fallback record: Level INFO,
\* Message the raw text, empty Data, zero Source, Time from the retrieval
\* creation timestamp.
C1_NonObjectYieldsFallback ==
    (Done /\ ~IsObject) =>
        /\ event.Level = INFO
        /\ event.Message = message.raw
        /\ event.Data = NoData
        /\ event.Source = ZeroSource
        /\ event.Time = RetrievalCreation

\* C2: NewEvent completes for every retrieved record, whichever of its five
\* pointers are nil, and the fields of the absent ones are zero values.
C2_AbsentMetadataTolerated ==
    (pc # "start") =>
        /\ Done
        /\ cwEvent.LogStreamName.nil => event.Stream = ""
        /\ cwEvent.EventId.nil => event.ID = ""
        /\ cwEvent.Message.nil => event.Message = ""
        /\ cwEvent.IngestionTime.nil => event.IngestTime = InstantOfMs(0)
        /\ cwEvent.Timestamp.nil => event.CreationTime = InstantOfMs(0)

\* C3: an object with a present reserved key that does not decode yields
\* exactly the Event of the non-JSON fallback for the same raw text, whichever
\* reserved keys decoded before the failing one.
C3_WholeMessageDegradation ==
    (Done /\ IsObject /\ SomeReservedUndecodable(message.o)) => event = FallbackEvent

\* C3's case: the time decoded and a later reserved key (msg) failed.
C3_Witness ==
    /\ Done /\ IsObject
    /\ "time" \in DOMAIN message.o /\ message.o["time"].s = TimeTextOne
    /\ "source" \in DOMAIN message.o /\ message.o["source"].raw = SourceGoodRaw
    /\ MsgUndecodable(message.o)
    /\ ~LevelUndecodable(message.o)
    /\ event = FallbackEvent

\* C4: Data never holds one of the keys level, time, source, msg; and for an
\* object whose reserved keys all decode, the keys of Data are exactly the
\* object's keys minus those four.
C4_PayloadKeys ==
    Done =>
        /\ (DOMAIN event.Data) \cap {"level", "time", "source", "msg"} = {}
        /\ ParsedObject =>
             DOMAIN event.Data = (DOMAIN message.o) \ {"level", "time", "source", "msg"}

\* C4's case: reserved and non-reserved keys together, "Level" kept.
C4_Witness ==
    /\ Done /\ ParsedObject
    /\ {"level", "msg", "time"} \subseteq DOMAIN message.o
    /\ DOMAIN event.Data = {"count", "Level"}

\* C5: Level is INFO when the message is an object without a level key, or
\* its level value does not parse, or the message is not a JSON object.
C5_LevelDefaultsToInfo ==
    (Done /\ (~IsObject \/ "level" \notin DOMAIN message.o
                        \/ LevelUndecodable(message.o)))
        => event.Level = INFO

\* The embedded time of the message, when it parsed and carried a decodable
\* non-zero time.
HasEmbeddedTime ==
    /\ ParsedObject
    /\ "time" \in DOMAIN message.o
    /\ message.o["time"].s \in {TimeTextOne, TimeTextFrac}
EmbeddedTime ==
    IF message.o["time"].s = TimeTextOne
    THEN [isZero |-> FALSE, sec |-> 1, nsec |-> 0]
    ELSE [isZero |-> FALSE, sec |-> 2, nsec |-> 500000000]

\* C6: Time is the embedded time when the message carried a decodable non-zero
\* one, and otherwise (no time key, a zero time, the fallback record) it is
\* CreationTime; CreationTime is always the converted retrieval timestamp.
C6_TwoTierTimestamp ==
    Done =>
        /\ event.CreationTime = RetrievalCreation
        /\ IF HasEmbeddedTime
           THEN event.Time = EmbeddedTime
           ELSE event.Time = event.CreationTime

\* C6's cases: an embedded time that differs from the creation time, and a
\* zero embedded time replaced by it.
C6_Witness ==
    /\ Done /\ HasEmbeddedTime
    /\ event.Time = EmbeddedTime /\ event.Time # event.CreationTime
C6_WitnessZero ==
    /\ Done /\ ParsedObject /\ "time" \in DOMAIN message.o
    /\ message.o["time"].s = TimeTextZero
    /\ event.Time = InstantOfMs(1500)

\* What the value of a non-reserved key is stored as, read literally from the
\* claim: string content, number literal, raw text for everything else.
StoredAsClaimed(v) ==
    CASE v.k = "str" -> v.s
      [] v.k = "num" -> v.raw
      [] OTHER       -> v.raw

\* The same with null (which decodes as a string, to nothing) stored as "".
StoredAsAmended(v) ==
    CASE v.k = "str"  -> v.s
      [] v.k = "num"  -> v.raw
      [] v.k = "null" -> ""
      [] OTHER        -> v.raw

\* C9 as stated: every non-reserved key of a parsed object is stored as the
\* string content, the number literal, or else the raw JSON text verbatim, and
\* no payload value makes the parse fail.
C9_PayloadChainAsStated ==
    (Done /\ ParsedObject) =>
        \A key \in (DOMAIN message.o) \ {"level", "time", "source", "msg"} :
            /\ key \in DOMAIN event.Data
            /\ event.Data[key] = StoredAsClaimed(message.o[key])

\* C9 amended: as above, except that a null value is stored as the empty
\* string; objects, arrays and booleans are stored as their raw text.
C9_PayloadChain ==
    (Done /\ ParsedObject) =>
        \A key \in (DOMAIN message.o) \ {"level", "time", "source", "msg"} :
            /\ key \in DOMAIN event.Data
            /\ event.Data[key] = StoredAsAmended(message.o[key])

\* C9's cases: an escaped string stored decoded, a number as its literal, an
\* object as its raw text, null as "".
C9_Witness ==
    /\ Done /\ ParsedObject /\ "count" \in DOMAIN message.o
    /\ message.o["count"].raw = "\"a\\u0062\"" /\ event.Data["count"] = "ab"
C9_WitnessNumber ==
    /\ Done /\ ParsedObject /\ "count" \in DOMAIN message.o
    /\ message.o["count"].k = "num" /\ event.Data["count"] = "1e3"
C9_WitnessNull ==
    /\ Done /\ ParsedObject /\ "count" \in DOMAIN message.o
    /\ message.o["count"].k = "null" /\ event.Data["count"] = ""

\* The milliseconds from the epoch an instant denotes (exact when its
\* nanoseconds are whole milliseconds).
MsOfInstant(t) == t.sec * 1000 + t.nsec \div Million

DenotesMs(t, i) ==
    /\ ~t.isZero
    /\ t.nsec >= 0 /\ t.nsec < Billion /\ t.nsec % Million = 0
    /\ MsOfInstant(t) = i

\* C10: IngestTime and CreationTime denote exactly the i milliseconds of their
\* retrieval timestamps, negative ones included, and the epoch (i = 0) when
\* the timestamp is absent.
C10_EpochMillisConversion ==
    Done =>
        /\ DenotesMs(event.CreationTime,
                     IF cwEvent.Timestamp.nil THEN 0 ELSE cwEvent.Timestamp.v)
        /\ DenotesMs(event.IngestTime,
                     IF cwEvent.IngestionTime.nil THEN 0 ELSE cwEvent.IngestionTime.v)

\* C10's case: a negative timestamp with a remainder, carried into seconds.
C10_Witness ==
    /\ Done /\ ~cwEvent.Timestamp.nil /\ cwEvent.Timestamp.v = -1500
    /\ event.CreationTime = [isZero |-> FALSE, sec |-> -2, nsec |-> 500000000]
    /\ cwEvent.IngestionTime.nil /\ event.IngestTime = Unix(0, 0)


-----------------------------------------------------------------------------
(* Properties of ByCreationTime and TaskShort *)

\* The creation time of element i (from 1) in milliseconds.
CreationMs(bs, i) == MsOfInstant(bs[i].CreationTime)

\* Where the Event at position i of b stood in the input.
InputPosition(i) == CHOOSE q \in 1..Len(b0) : b0[q] = b[i]

\* C7: Less(i, j) holds exactly when event i was created strictly before
\* event j (so it is irreflexive, asymmetric and transitive); the slice is
\* always a permutation of the unaltered input Events; and the sort ends in
\* non-decreasing CreationTime order with equal creation times in input order.
C7_SortByCreationTime ==
    LET n == Len(b) IN
    /\ \A i, j \in 0..(n - 1) :
          /\ ByCreationTimeLess(b, i, j) <=> CreationMs(b, i + 1) < CreationMs(b, j + 1)
          /\ ~(ByCreationTimeLess(b, i, j) /\ ByCreationTimeLess(b, j, i))
          /\ \A m \in 0..(n - 1) :
                (ByCreationTimeLess(b, i, j) /\ ByCreationTimeLess(b, j, m))
                    => ByCreationTimeLess(b, i, m)
    /\ ByCreationTimeLen(b) = Len(b0)
    /\ \A q \in 1..Len(b0) : \E i \in 1..n : b[i] = b0[q]
    /\ spc = "done" =>
          \A i, j \in 1..n :
              i < j => /\ CreationMs(b, i) <= CreationMs(b, j)
                       /\ CreationMs(b, i) = CreationMs(b, j)
                            => InputPosition(i) < InputPosition(j)

\* C7's case: a sort that moved Events and kept two equal creation times in
\* their input order.
C7_Witness ==
    /\ spc = "done" /\ Len(b) = 3 /\ b # b0
    /\ CreationMs(b0, 1) = 3000 /\ CreationMs(b0, 2) = 3000 /\ CreationMs(b0, 3) = 1000
    /\ b = <<b0[3], b0[1], b0[2]>>

\* The 8-4-4-4-12 shape: 36 characters, hyphens at 9, 14, 19 and 24, and
\* letters or digits everywhere else.
UUIDShaped(s) ==
    /\ Len(s) = 36
    /\ \A i \in 1..Len(s) :
          IF i \in {9, 14, 19, 24} THEN s[i] = "-"
          ELSE s[i] \in Digits \cup Letters

\* C8: a stream of the 8-4-4-4-12 shape shortens to its first group of 8
\* characters, every other stream is returned unchanged, and the result is
\* always a prefix of the stream.
C8_TaskShort ==
    tpc = "done" =>
        /\ IF UUIDShaped(stream)
           THEN short = SubSeq(stream, 1, 8)
           ELSE short = stream
        /\ Len(short) <= Len(stream)
        /\ short = SubSeq(stream, 1, Len(short))

\* C8's cases: a UUID shortened, and a UUID with a trailing character kept.
C8_Witness ==
    /\ tpc = "done" /\ stream = TaskUUID
    /\ short = <<"1", "2", "3", "4", "5", "6", "7", "8">>
C8_WitnessSuffix ==
    /\ tpc = "done" /\ Len(stream) = 37 /\ SubSeq(stream, 1, 36) = TaskUUID
    /\ stream[37] = "Z" /\ short = stream

====
